---- MODULE Spec2Model ----
(***************************************************************************)
(* Model of package vidplatr: the edit orchestrators (CopyFile,            *)
(* CopySection, DeleteSection, AppendFile, AppendSection, ReplaceSection,  *)
(* DeleteFile, GetDurationMs) and their helpers in utils.go.               *)
(*                                                                         *)
(* The disk is a function from paths to file contents.  A media file is a  *)
(* sequence of one-millisecond ticks <<origin, k>>, so that the material   *)
(* of a file and its order can be compared, and its duration is the length *)
(* of the sequence.  ffmpeg and ffprobe are external programs: every       *)
(* invocation may succeed or fail, a failed or cancelled ffmpeg may leave  *)
(* its output path untouched or partly written, and a stream-copy cut may  *)
(* run past the requested end (it cuts on packet boundaries).              *)
(*                                                                         *)
(* A Go function that can fail is an operator from an execution state to   *)
(* the SET of execution states it can return in; Bind is Go's              *)
(* "if err != nil { return ... }" between two steps.  The calls of the     *)
(* package share no state (spec section 5), so a behaviour is one call on  *)
(* a disk drawn by Init; DeleteFile may be repeated.  The helper           *)
(* createConcatListFile can also be called on its own.                     *)
(*                                                                         *)
(* Environment assumptions: os.Remove of an existing regular file          *)
(* succeeds; os.CreateTemp returns a name that no file has.                *)
(***************************************************************************)
EXTENDS Integers, Sequences, FiniteSets, TLC

VARIABLES fs, pre, call

vars == <<fs, pre, call>>

\* Longest input file, in milliseconds.
MaxDur == 3

\* Longest list of paths handed to createConcatListFile on its own.
MaxList == 3

----------------------------------------------------------------------------
\* Paths.  Strings are atomic in TLC, so what the code reads off a path
\* (blank, unsafe for the manifest) is membership in a set.

InPath == "in.mp4"
ClipPath == "clip.mp4"
QuotePath == "cl'ip.mp4"
OutPath == "out.mp4"
BlankPath == "  "

UserPaths == {InPath, ClipPath, QuotePath, OutPath}

TempPrefixes == {"mvedit-partA", "mvedit-partB", "mvedit-joined", "mvedit-append",
                 "mvedit-insert", "mvedit-replace", "mvedit-concat"}

\* os.CreateTemp(dir, prefix+"-*"+ext): the random part is written "-1".
TempName(prefix) == prefix \o "-1"

TempPaths == { TempName(p) : p \in TempPrefixes }

ManifestPaths == { TempName("mvedit-concat") }

AllPaths == UserPaths \cup TempPaths

\* strings.TrimSpace(p) == ""
IsBlank(p) == p \in {"", BlankPath}

\* strings.ContainsAny(p, "'\n\r")
IsUnsafe(p) == p \in {QuotePath}

----------------------------------------------------------------------------
\* File contents.

NoFile == [t |-> "none", d |-> <<>>]
EmptyFile == [t |-> "empty", d |-> <<>>]
PartialFile == [t |-> "partial", d |-> <<>>]
MediaFile(d) == [t |-> "media", d |-> d]
ListFile(paths) == [t |-> "list", d |-> [i \in 1..Len(paths) |-> <<paths[i], 0>>]]

Original(origin, n) == MediaFile([i \in 1..n |-> <<origin, i>>])

Exists(f, p) == f[p].t # "none"
IsMedia(f, p) == p \in DOMAIN f /\ f[p].t = "media"
Dur(f, p) == Len(f[p].d)

\* The ticks [lo, hi) of a media sequence.
Cut(d, lo, hi) == SubSeq(d, lo + 1, IF hi > Len(d) THEN Len(d) ELSE hi)

RECURSIVE Flatten(_)
Flatten(ds) == IF ds = <<>> THEN <<>> ELSE Head(ds) \o Flatten(Tail(ds))

Range(seq) == { seq[i] : i \in DOMAIN seq }

----------------------------------------------------------------------------
\* Execution state of a call: the disk, the external commands and file
\* operations issued so far, the deferred removals of the running function,
\* the error and value being returned, and whether the context is cancelled.

Start(f) == [fs |-> f, log |-> <<>>, defers |-> <<>>, err |-> "", ret |-> 0,
             cancelled |-> FALSE]

Fail(st, msg) == [st EXCEPT !.err = msg, !.ret = 0]

\* if err != nil { return ..., err }
Bind(S, K(_)) == UNION { IF s.err # "" THEN {s} ELSE K(s) : s \in S }

\* if err == nil { return nil }, and otherwise go on with the error in hand
OrElse(S, K(_)) == UNION { IF s.err = "" THEN {s} ELSE K([s EXCEPT !.err = ""]) : s \in S }

\* defer os.Remove(p)
Defer(st, p) == [st EXCEPT !.defers = <<p>> \o @]

\* A function starts with no deferred call of its own.
Frame(st) == [st EXCEPT !.defers = <<>>]

\* On return the deferred removals run (a removal of a missing file fails
\* and its error is dropped) and the caller's deferred calls are its own again.
Return(S, saved) ==
    { [r EXCEPT !.fs = [p \in DOMAIN r.fs |->
                          IF p \in Range(r.defers) THEN NoFile ELSE r.fs[p]],
                !.defers = saved] : r \in S }

\* One line of the log.
Entry(cmd, form, mode, src, list, lo, hi, out, negts) ==
    [cmd |-> cmd, form |-> form, mode |-> mode, src |-> src, list |-> list,
     lo |-> lo, hi |-> hi, out |-> out, negts |-> negts, ok |-> TRUE, wrote |-> 0]

Logged(st, e, ok, wrote) ==
    [st EXCEPT !.log = Append(@, [e EXCEPT !.ok = ok, !.wrote = wrote])]

----------------------------------------------------------------------------
\* utils.go

\* ffprobe prints the duration of a media file; it fails on anything else,
\* and it can fail on a media file too.  exec.CommandContext does not start
\* a command whose context is already cancelled.
probeDurationMs(st, filePath) ==
    LET e == Entry("ffprobe", "probe", "", <<filePath>>, "", 0, 0, "", FALSE)
        failed == Fail(Logged(st, e, FALSE, 0), "ffprobe failed")
    IN  IF st.cancelled \/ ~IsMedia(st.fs, filePath)
        THEN {failed}
        ELSE {failed, [Logged(st, e, TRUE, 0) EXCEPT !.ret = Dur(st.fs, filePath)]}

\* os.MkdirAll(parent, 0o755)
ensureParentDir(st, dstPath) == {st, Fail(st, "mkdir failed")}

\* os.CreateTemp(dir, prefix+"-*"+ext): an empty file under a fresh name.
tempLike(st, path, prefix) ==
    LET name == TempName(prefix)
        e == Entry("mktemp", "", "", <<>>, "", 0, 0, name, FALSE)
    IN  { Fail(st, "createtemp failed"),
          [Logged(st, e, TRUE, 0) EXCEPT !.fs[name] = EmptyFile] }

\* os.Rename(from, to)
Rename(st, from, to) ==
    LET e == Entry("rename", "", "", <<from>>, "", 0, 0, to, FALSE)
    IN  IF ~Exists(st.fs, from)
        THEN {Fail(Logged(st, e, FALSE, 0), "rename failed")}
        ELSE { Fail(Logged(st, e, FALSE, 0), "rename failed"),
               [Logged(st, e, TRUE, 0) EXCEPT
                    !.fs = [p \in DOMAIN st.fs |->
                              IF p = to THEN st.fs[from]
                              ELSE IF p = from THEN NoFile ELSE st.fs[p]]] }

\* outPath of prepareInPlaceOutput
InPlacePath(inputPath, outputPath, prefix) ==
    IF outputPath # inputPath THEN outputPath ELSE TempName(prefix)

prepareInPlaceOutput(st, inputPath, outputPath, prefix) ==
    IF outputPath # inputPath THEN {st} ELSE tempLike(st, outputPath, prefix)

\* finalize of prepareInPlaceOutput
finalize(st, inputPath, outputPath, prefix) ==
    IF outputPath # inputPath THEN {st}
    ELSE Rename(st, TempName(prefix), outputPath)

\* Mutant: prepareInPlaceOutput leaves cleanup the no-op it starts as.
DeferCleanup_noop(st, inputPath, outputPath, prefix) == st

\* defer cleanup(), cleanup of prepareInPlaceOutput
DeferCleanup(st, inputPath, outputPath, prefix) ==
    IF outputPath # inputPath THEN st ELSE Defer(st, TempName(prefix))

\* Mutant: the entries are written last path first.
createConcatListFile_reversed(st, dir, paths) ==
    LET listPath == TempName("mvedit-concat")
        e == Entry("mktemp", "", "", <<>>, "", 0, 0, listPath, FALSE)
        made == Logged(st, e, TRUE, 0)
        bad == { i \in DOMAIN paths : IsBlank(paths[i]) \/ IsUnsafe(paths[i]) }
        first == CHOOSE i \in bad : \A j \in bad : i <= j
    IN  IF Len(paths) = 0 THEN {Fail(st, "no concat paths")}
        ELSE IF bad # {}
        THEN IF IsBlank(paths[first])
             THEN {Fail(st, "concat path is empty")}
             ELSE {Fail(st, "concat paths contain unsupported characters")}
        ELSE { Fail(st, "createtemp failed"),
               Fail(made, "writefile failed"),
               [made EXCEPT !.fs[listPath] =
                    ListFile([i \in 1..Len(paths) |-> paths[Len(paths) + 1 - i]])] }

createConcatListFile(st, dir, paths) ==
    LET listPath == TempName("mvedit-concat")
        e == Entry("mktemp", "", "", <<>>, "", 0, 0, listPath, FALSE)
        made == Logged(st, e, TRUE, 0)
        bad == { i \in DOMAIN paths : IsBlank(paths[i]) \/ IsUnsafe(paths[i]) }
        first == CHOOSE i \in bad : \A j \in bad : i <= j
    IN  IF Len(paths) = 0 THEN {Fail(st, "no concat paths")}
        ELSE IF bad # {}
        THEN IF IsBlank(paths[first])
             THEN {Fail(st, "concat path is empty")}
             ELSE {Fail(st, "concat paths contain unsupported characters")}
        ELSE { Fail(st, "createtemp failed"),
               \* os.WriteFile fails: cleanup() removes the list file
               Fail(made, "writefile failed"),
               [made EXCEPT !.fs[listPath] = ListFile(paths)] }

\* formatTimestampMs: <<hours, minutes, seconds, milliseconds>> of HH:MM:SS.mmm
formatTimestampMs(ms0) ==
    LET ms == IF ms0 < 0 THEN 0 ELSE ms0
        h == ms \div 3600000
        d1 == ms - h * 3600000
        m == d1 \div 60000
        d2 == d1 - m * 60000
        s == d2 \div 1000
    IN  <<h, m, s, d2 - s * 1000>>

\* ffmpeg's reading of a HH:MM:SS.mmm timestamp, in milliseconds
ParseTimestamp(ts) == ((ts[1] * 60 + ts[2]) * 60 + ts[3]) * 1000 + ts[4]

\* The manifest ffmpeg's concat demuxer reads: its entries in order.
ManifestEntries(f, listPath) ==
    IF f[listPath].t = "list"
    THEN [i \in 1..Len(f[listPath].d) |-> f[listPath].d[i][1]]
    ELSE <<>>

\* exec.CommandContext(ctx, "ffmpeg", args...).Run() for the invocation e.
\* ffmpeg refuses an output path that is the path given with -i ("cannot
\* edit existing files in-place") before it touches it.  The entries of a
\* concat manifest are not checked that way: with -y the output path is
\* truncated when it is opened, so an entry that is also the output has no
\* material left to read.  A stream-copy cut ends on a packet boundary, at
\* the requested end or one tick after it.  A failed run leaves the output
\* untouched or partly written, and it may have failed because the context
\* was cancelled.
runFFmpeg(st, e) ==
    LET f == st.fs
        readable == e.src # <<>> /\ \A i \in DOMAIN e.src : IsMedia(f, e.src[i])
        refused == e.form # "concat" /\ e.out \in Range(e.src)
        seen == [p \in DOMAIN f |-> IF p = e.out THEN <<>> ELSE f[p].d]
        material(drift) ==
            IF e.form = "section" THEN Cut(seen[e.src[1]], e.lo, e.hi + drift)
            ELSE Flatten([i \in DOMAIN e.src |-> seen[e.src[i]]])
        drifts == IF e.form = "section" /\ e.mode = "copy" THEN {0, 1} ELSE {0}
        good == IF readable THEN { material(k) : k \in drifts } \ {<<>>} ELSE {}
        failed(c, partial) ==
            [Fail(Logged(st, e, FALSE, 0), "ffmpeg failed") EXCEPT
                !.cancelled = c,
                !.fs[e.out] = IF partial THEN PartialFile ELSE @]
    IN  IF st.cancelled THEN {failed(TRUE, FALSE)}
        ELSE IF refused THEN {failed(FALSE, FALSE)}
        ELSE { [Logged(st, e, TRUE, Len(d)) EXCEPT !.fs[e.out] = MediaFile(d)] : d \in good }
             \cup { failed(c, partial) : c \in BOOLEAN, partial \in BOOLEAN }

concatListCopyOrReencode(st, listPath, outPath) ==
    LET entries == ManifestEntries(st.fs, listPath)
        copy == Entry("ffmpeg", "concat", "copy", entries, listPath, 0, 0, outPath, TRUE)
        reencode == Entry("ffmpeg", "concat", "reencode", entries, listPath, 0, 0, outPath, FALSE)
    IN  OrElse(runFFmpeg(st, copy), LAMBDA a :
          { IF b.err = "" THEN b ELSE Fail(b, "concat-copy failed, re-encode failed")
            : b \in runFFmpeg(a, reencode) })

----------------------------------------------------------------------------
\* The operations of the package.

GetDurationMs(st, filePath) ==
    IF IsBlank(filePath) THEN {Fail(st, "filePath is empty")}
    ELSE probeDurationMs(st, filePath)

\* Mutant: the error of os.Remove is returned as it is, os.ErrNotExist too.
DeleteFile_notExistIsError(st, filePath) ==
    IF IsBlank(filePath) THEN {Fail(st, "filePath is empty")}
    ELSE IF ~Exists(st.fs, filePath) THEN {Fail(st, "remove failed")}
    ELSE {[st EXCEPT !.fs[filePath] = NoFile]}

\* os.Remove: a missing file is os.ErrNotExist, which DeleteFile returns as nil.
DeleteFile(st, filePath) ==
    IF IsBlank(filePath) THEN {Fail(st, "filePath is empty")}
    ELSE {[st EXCEPT !.fs[filePath] = NoFile]}

CopyFile(st, inputPath, outputPath) ==
    IF IsBlank(inputPath) THEN {Fail(st, "inputPath is empty")}
    ELSE IF IsBlank(outputPath) THEN {Fail(st, "outputPath is empty")}
    ELSE Bind(ensureParentDir(st, outputPath), LAMBDA a :
           runFFmpeg(a, Entry("ffmpeg", "remux", "copy", <<inputPath>>, "", 0, 0,
                              outputPath, FALSE)))

\* Mutant: no return after a stream copy that succeeded, the re-encode
\* attempt always runs.
CopySection_alwaysReencode(st, inputPath, outputPath, startMs, endMs) ==
    LET ss == ParseTimestamp(formatTimestampMs(startMs))
        to == ss + ParseTimestamp(formatTimestampMs(endMs - startMs))
        copy == Entry("ffmpeg", "section", "copy", <<inputPath>>, "", ss, to,
                      outputPath, TRUE)
        reencode == Entry("ffmpeg", "section", "reencode", <<inputPath>>, "", ss, to,
                          outputPath, FALSE)
    IN  IF IsBlank(inputPath) THEN {Fail(st, "inputPath is empty")}
        ELSE IF IsBlank(outputPath) THEN {Fail(st, "outputPath is empty")}
        ELSE IF startMs < 0 THEN {Fail(st, "startMs must be >= 0")}
        ELSE IF endMs <= startMs THEN {Fail(st, "endMs must be > startMs")}
        ELSE Bind(ensureParentDir(st, outputPath), LAMBDA a :
             UNION { { IF c.err = "" THEN c
                       ELSE Fail(c, "stream-copy failed, re-encode failed")
                       : c \in runFFmpeg([b EXCEPT !.err = ""], reencode) }
                     : b \in runFFmpeg(a, copy) })

CopySection(st, inputPath, outputPath, startMs, endMs) ==
    LET startTimestamp == formatTimestampMs(startMs)
        clipDuration == formatTimestampMs(endMs - startMs)
        ss == ParseTimestamp(startTimestamp)
        to == ss + ParseTimestamp(clipDuration)
        copy == Entry("ffmpeg", "section", "copy", <<inputPath>>, "", ss, to,
                      outputPath, TRUE)
        reencode == Entry("ffmpeg", "section", "reencode", <<inputPath>>, "", ss, to,
                          outputPath, FALSE)
    IN  IF IsBlank(inputPath) THEN {Fail(st, "inputPath is empty")}
        ELSE IF IsBlank(outputPath) THEN {Fail(st, "outputPath is empty")}
        ELSE IF startMs < 0 THEN {Fail(st, "startMs must be >= 0")}
        ELSE IF endMs <= startMs THEN {Fail(st, "endMs must be > startMs")}
        ELSE Bind(ensureParentDir(st, outputPath), LAMBDA a :
             OrElse(runFFmpeg(a, copy), LAMBDA b :
               { IF c.err = "" THEN c ELSE Fail(c, "stream-copy failed, re-encode failed")
                 : c \in runFFmpeg(b, reencode) }))

\* Mutant: partB is cut from startMs, not from endMs.
DeleteSection_keep_fromStart(st, inputPath, outputPath, startMs, endMs, durationMs) ==
    LET partA == IF startMs > 0 THEN TempName("mvedit-partA") ELSE ""
        partB == IF endMs < durationMs THEN TempName("mvedit-partB") ELSE ""
        listFile == TempName("mvedit-concat")
        outTmp == TempName("mvedit-joined")
    IN  Bind(IF startMs > 0
             THEN Bind(tempLike(st, outputPath, "mvedit-partA"), LAMBDA c :
                    CopySection(Defer(c, partA), inputPath, partA, 0, startMs))
             ELSE {st}, LAMBDA d :
        Bind(IF endMs < durationMs
             THEN Bind(tempLike(d, outputPath, "mvedit-partB"), LAMBDA c :
                    CopySection(Defer(c, partB), inputPath, partB, startMs, durationMs))
             ELSE {d}, LAMBDA g :
          IF partA = "" /\ partB = "" THEN {Fail(g, "nothing to keep after delete")}
          ELSE IF partA = "" THEN Rename(g, partB, outputPath)
          ELSE IF partB = "" THEN Rename(g, partA, outputPath)
          ELSE
        Bind(createConcatListFile(g, outputPath, <<partA, partB>>), LAMBDA h :
        Bind(tempLike(Defer(h, listFile), outputPath, "mvedit-joined"), LAMBDA i :
        Bind(concatListCopyOrReencode(Defer(i, outTmp), listFile, outTmp), LAMBDA j :
          Rename(j, outTmp, outputPath))))))

\* DeleteSection from "dir := filepath.Dir(outputPath)" on: the range is a
\* proper part of the file.  mkTemp is tempLike(outputPath, prefix).
DeleteSection_keep(st, inputPath, outputPath, startMs, endMs, durationMs) ==
    LET partA == IF startMs > 0 THEN TempName("mvedit-partA") ELSE ""
        partB == IF endMs < durationMs THEN TempName("mvedit-partB") ELSE ""
        listFile == TempName("mvedit-concat")
        outTmp == TempName("mvedit-joined")
    IN  Bind(IF startMs > 0
             THEN Bind(tempLike(st, outputPath, "mvedit-partA"), LAMBDA c :
                    CopySection(Defer(c, partA), inputPath, partA, 0, startMs))
             ELSE {st}, LAMBDA d :
        Bind(IF endMs < durationMs
             THEN Bind(tempLike(d, outputPath, "mvedit-partB"), LAMBDA c :
                    CopySection(Defer(c, partB), inputPath, partB, endMs, durationMs))
             ELSE {d}, LAMBDA g :
          \* If we only have one side, it becomes the final file.
          IF partA = "" /\ partB = "" THEN {Fail(g, "nothing to keep after delete")}
          ELSE IF partA = "" THEN Rename(g, partB, outputPath)
          ELSE IF partB = "" THEN Rename(g, partA, outputPath)
          ELSE
        Bind(createConcatListFile(g, outputPath, <<partA, partB>>), LAMBDA h :
        Bind(tempLike(Defer(h, listFile), outputPath, "mvedit-joined"), LAMBDA i :
        Bind(concatListCopyOrReencode(Defer(i, outTmp), listFile, outTmp), LAMBDA j :
          Rename(j, outTmp, outputPath))))))

\* Mutant: the whole-range check compares the clamped end with ">".
DeleteSection_strictWhole(st, inputPath, outputPath, startMs, endMs0) ==
    IF IsBlank(inputPath) THEN {Fail(st, "inputPath is empty")}
    ELSE IF IsBlank(outputPath) THEN {Fail(st, "outputPath is empty")}
    ELSE IF startMs < 0 THEN {Fail(st, "startMs must be >= 0")}
    ELSE IF endMs0 <= startMs THEN {Fail(st, "endMs must be > startMs")}
    ELSE Return(
      Bind(ensureParentDir(Frame(st), outputPath), LAMBDA a :
      Bind(probeDurationMs(a, inputPath), LAMBDA b :
        LET durationMs == b.ret
            endMs == IF endMs0 > durationMs THEN durationMs ELSE endMs0
        IN  IF startMs >= durationMs THEN {Fail(b, "startMs must be < duration")}
            ELSE IF startMs = 0 /\ endMs > durationMs
            THEN IF inputPath = outputPath
                 THEN DeleteFile(b, outputPath)
                 ELSE {Fail(b, "delete range removes entire video")}
            ELSE DeleteSection_keep(b, inputPath, outputPath, startMs, endMs,
                                    durationMs))),
      st.defers)

\* Mutant: startMs is not compared with the probed duration.
DeleteSection_noRangeCheck(st, inputPath, outputPath, startMs, endMs0) ==
    IF IsBlank(inputPath) THEN {Fail(st, "inputPath is empty")}
    ELSE IF IsBlank(outputPath) THEN {Fail(st, "outputPath is empty")}
    ELSE IF startMs < 0 THEN {Fail(st, "startMs must be >= 0")}
    ELSE IF endMs0 <= startMs THEN {Fail(st, "endMs must be > startMs")}
    ELSE Return(
      Bind(ensureParentDir(Frame(st), outputPath), LAMBDA a :
      Bind(probeDurationMs(a, inputPath), LAMBDA b :
        LET durationMs == b.ret
            endMs == IF endMs0 > durationMs THEN durationMs ELSE endMs0
        IN  IF startMs = 0 /\ endMs >= durationMs
            THEN IF inputPath = outputPath
                 THEN DeleteFile(b, outputPath)
                 ELSE {Fail(b, "delete range removes entire video")}
            ELSE DeleteSection_keep(b, inputPath, outputPath, startMs, endMs,
                                    durationMs))),
      st.defers)

\* Mutant: a range over the whole file is an error for every output, the
\* in-place case is not told apart.
DeleteSection_noInPlace(st, inputPath, outputPath, startMs, endMs0) ==
    IF IsBlank(inputPath) THEN {Fail(st, "inputPath is empty")}
    ELSE IF IsBlank(outputPath) THEN {Fail(st, "outputPath is empty")}
    ELSE IF startMs < 0 THEN {Fail(st, "startMs must be >= 0")}
    ELSE IF endMs0 <= startMs THEN {Fail(st, "endMs must be > startMs")}
    ELSE Return(
      Bind(ensureParentDir(Frame(st), outputPath), LAMBDA a :
      Bind(probeDurationMs(a, inputPath), LAMBDA b :
        LET durationMs == b.ret
            endMs == IF endMs0 > durationMs THEN durationMs ELSE endMs0
        IN  IF startMs >= durationMs THEN {Fail(b, "startMs must be < duration")}
            ELSE IF startMs = 0 /\ endMs >= durationMs
            THEN {Fail(b, "delete range removes entire video")}
            ELSE DeleteSection_keep(b, inputPath, outputPath, startMs, endMs,
                                    durationMs))),
      st.defers)

DeleteSection(st, inputPath, outputPath, startMs, endMs0) ==
    IF IsBlank(inputPath) THEN {Fail(st, "inputPath is empty")}
    ELSE IF IsBlank(outputPath) THEN {Fail(st, "outputPath is empty")}
    ELSE IF startMs < 0 THEN {Fail(st, "startMs must be >= 0")}
    ELSE IF endMs0 <= startMs THEN {Fail(st, "endMs must be > startMs")}
    ELSE Return(
      Bind(ensureParentDir(Frame(st), outputPath), LAMBDA a :
      Bind(probeDurationMs(a, inputPath), LAMBDA b :
        LET durationMs == b.ret
            endMs == IF endMs0 > durationMs THEN durationMs ELSE endMs0
        IN  IF startMs >= durationMs THEN {Fail(b, "startMs must be < duration")}
            ELSE IF startMs = 0 /\ endMs >= durationMs
            THEN IF inputPath = outputPath
                 THEN DeleteFile(b, outputPath)
                 ELSE {Fail(b, "delete range removes entire video")}
            ELSE DeleteSection_keep(b, inputPath, outputPath, startMs, endMs,
                                    durationMs))),
      st.defers)

AppendFile(st, inputPath, appendPath, outputPath) ==
    LET outPath == InPlacePath(inputPath, outputPath, "mvedit-append")
        listPath == TempName("mvedit-concat")
    IN  IF IsBlank(inputPath) THEN {Fail(st, "inputPath is empty")}
        ELSE IF IsBlank(appendPath) THEN {Fail(st, "appendPath is empty")}
        ELSE IF IsBlank(outputPath) THEN {Fail(st, "outputPath is empty")}
        ELSE Return(
          Bind(ensureParentDir(Frame(st), outputPath), LAMBDA a :
          Bind(prepareInPlaceOutput(a, inputPath, outputPath, "mvedit-append"), LAMBDA b :
          Bind(createConcatListFile(
                   DeferCleanup(b, inputPath, outputPath, "mvedit-append"),
                   outPath, <<inputPath, appendPath>>), LAMBDA c :
          Bind(concatListCopyOrReencode(Defer(c, listPath), listPath, outPath), LAMBDA d :
          Bind(finalize(d, inputPath, outputPath, "mvedit-append"), LAMBDA e :
            probeDurationMs(e, outputPath)))))),
          st.defers)

\* Mutant: the boundary returned is computed from the requested insertMs.
AppendSection_insert_requested(st, inputPath, appendPath, outputPath, insertMs, inputDurationMs, appendDurationMs) ==
    LET outPath == IF outputPath = inputPath THEN TempName("mvedit-insert") ELSE outputPath
        partA == TempName("mvedit-partA")
        partB == TempName("mvedit-partB")
        listPath == TempName("mvedit-concat")
    IN  Bind(IF outputPath = inputPath
             THEN prepareInPlaceOutput(st, inputPath, outputPath, "mvedit-insert")
             ELSE {st}, LAMBDA d :
        Bind(tempLike(DeferCleanup(d, inputPath, outputPath, "mvedit-insert"),
                      outPath, "mvedit-partA"), LAMBDA e :
        Bind(tempLike(Defer(e, partA), outPath, "mvedit-partB"), LAMBDA g :
        Bind(CopySection(Defer(g, partB), inputPath, partA, 0, insertMs), LAMBDA h :
        Bind(CopySection(h, inputPath, partB, insertMs, inputDurationMs), LAMBDA i :
        Bind(probeDurationMs(i, partA), LAMBDA j :
        Bind(createConcatListFile(j, outPath, <<partA, appendPath, partB>>), LAMBDA k :
        Bind(concatListCopyOrReencode(Defer(k, listPath), listPath, outPath), LAMBDA l :
        Bind(IF outputPath = inputPath
             THEN finalize(l, inputPath, outputPath, "mvedit-insert")
             ELSE {l}, LAMBDA m :
          {[m EXCEPT !.ret = insertMs + appendDurationMs]})))))))))

\* AppendSection from "outPath := outputPath" on: 0 < insertMs < duration.
AppendSection_insert(st, inputPath, appendPath, outputPath, insertMs, inputDurationMs, appendDurationMs) ==
    LET outPath == IF outputPath = inputPath THEN TempName("mvedit-insert") ELSE outputPath
        partA == TempName("mvedit-partA")
        partB == TempName("mvedit-partB")
        listPath == TempName("mvedit-concat")
    IN  Bind(IF outputPath = inputPath
             THEN prepareInPlaceOutput(st, inputPath, outputPath, "mvedit-insert")
             ELSE {st}, LAMBDA d :
        Bind(tempLike(DeferCleanup(d, inputPath, outputPath, "mvedit-insert"),
                      outPath, "mvedit-partA"), LAMBDA e :
        Bind(tempLike(Defer(e, partA), outPath, "mvedit-partB"), LAMBDA g :
        Bind(CopySection(Defer(g, partB), inputPath, partA, 0, insertMs), LAMBDA h :
        Bind(CopySection(h, inputPath, partB, insertMs, inputDurationMs), LAMBDA i :
        Bind(probeDurationMs(i, partA), LAMBDA j :
          LET newSectionEndsMs == j.ret + appendDurationMs
          IN
        Bind(createConcatListFile(j, outPath, <<partA, appendPath, partB>>), LAMBDA k :
        Bind(concatListCopyOrReencode(Defer(k, listPath), listPath, outPath), LAMBDA l :
        Bind(IF outputPath = inputPath
             THEN finalize(l, inputPath, outputPath, "mvedit-insert")
             ELSE {l}, LAMBDA m :
          {[m EXCEPT !.ret = newSectionEndsMs]})))))))))

AppendSection(st, inputPath, appendPath, outputPath, insertMs) ==
    IF IsBlank(inputPath) THEN {Fail(st, "inputPath is empty")}
    ELSE IF IsBlank(appendPath) THEN {Fail(st, "appendPath is empty")}
    ELSE IF IsBlank(outputPath) THEN {Fail(st, "outputPath is empty")}
    ELSE IF insertMs < 0 THEN {Fail(st, "insertMs must be >= 0")}
    ELSE Return(
      Bind(ensureParentDir(Frame(st), outputPath), LAMBDA a :
      Bind(probeDurationMs(a, inputPath), LAMBDA b :
        LET inputDurationMs == b.ret
        IN  IF insertMs > inputDurationMs
            THEN {Fail(b, "insertMs must be <= duration")}
            ELSE
      Bind(probeDurationMs(b, appendPath), LAMBDA c :
        LET appendDurationMs == c.ret
        IN  \* Prepend shortcut.
            IF insertMs = 0
            THEN Bind(AppendFile(c, appendPath, inputPath, outputPath), LAMBDA d :
                   {[d EXCEPT !.ret = appendDurationMs]})
            \* Append shortcut.
            ELSE IF insertMs = inputDurationMs
            THEN AppendFile(c, inputPath, appendPath, outputPath)
            ELSE AppendSection_insert(c, inputPath, appendPath, outputPath, insertMs,
                                      inputDurationMs, appendDurationMs)))),
      st.defers)

\* ReplaceSection from "outPath := outputPath" on: the range is a proper part
\* of the file.
ReplaceSection_splice(st, inputPath, replacePath, outputPath, startMs, endMs, inputDurationMs, replaceDurationMs) ==
    LET outPath == IF outputPath = inputPath THEN TempName("mvedit-replace") ELSE outputPath
        partA == TempName("mvedit-partA")
        partB == TempName("mvedit-partB")
        listPath == TempName("mvedit-concat")
    IN  Bind(IF outputPath = inputPath
             THEN prepareInPlaceOutput(st, inputPath, outputPath, "mvedit-replace")
             ELSE {st}, LAMBDA d :
        Bind(tempLike(DeferCleanup(d, inputPath, outputPath, "mvedit-replace"),
                      outPath, "mvedit-partA"), LAMBDA e :
        Bind(tempLike(Defer(e, partA), outPath, "mvedit-partB"), LAMBDA g :
        Bind(CopySection(Defer(g, partB), inputPath, partA, 0, startMs), LAMBDA h :
        Bind(CopySection(h, inputPath, partB, endMs, inputDurationMs), LAMBDA i :
        Bind(probeDurationMs(i, partA), LAMBDA j :
          LET newEndMs == j.ret + replaceDurationMs
          IN
        Bind(createConcatListFile(j, outPath, <<partA, replacePath, partB>>), LAMBDA k :
        Bind(concatListCopyOrReencode(Defer(k, listPath), listPath, outPath), LAMBDA l :
        Bind(IF outputPath = inputPath
             THEN finalize(l, inputPath, outputPath, "mvedit-replace")
             ELSE {l}, LAMBDA m :
          {[m EXCEPT !.ret = newEndMs]})))))))))

\* Mutant: the whole-file replace returns the duration of the input.
ReplaceSection_inputDuration(st, inputPath, replacePath, outputPath, startMs, endMs0) ==
    IF IsBlank(inputPath) THEN {Fail(st, "inputPath is empty")}
    ELSE IF IsBlank(replacePath) THEN {Fail(st, "replacePath is empty")}
    ELSE IF IsBlank(outputPath) THEN {Fail(st, "outputPath is empty")}
    ELSE IF startMs < 0 THEN {Fail(st, "startMs must be >= 0")}
    ELSE IF endMs0 <= startMs THEN {Fail(st, "endMs must be > startMs")}
    ELSE Return(
      Bind(ensureParentDir(Frame(st), outputPath), LAMBDA a :
      Bind(probeDurationMs(a, inputPath), LAMBDA b :
        LET inputDurationMs == b.ret
            endMs == IF endMs0 > inputDurationMs THEN inputDurationMs ELSE endMs0
        IN  IF startMs >= inputDurationMs
            THEN {Fail(b, "startMs must be < duration")}
            ELSE
      Bind(probeDurationMs(b, replacePath), LAMBDA c :
        LET replaceDurationMs == c.ret
        IN  IF startMs = 0 /\ endMs >= inputDurationMs
            THEN Bind(CopyFile(c, replacePath, outputPath), LAMBDA d :
                   {[d EXCEPT !.ret = inputDurationMs]})
            ELSE ReplaceSection_splice(c, inputPath, replacePath, outputPath, startMs,
                                       endMs, inputDurationMs, replaceDurationMs)))),
      st.defers)

ReplaceSection(st, inputPath, replacePath, outputPath, startMs, endMs0) ==
    IF IsBlank(inputPath) THEN {Fail(st, "inputPath is empty")}
    ELSE IF IsBlank(replacePath) THEN {Fail(st, "replacePath is empty")}
    ELSE IF IsBlank(outputPath) THEN {Fail(st, "outputPath is empty")}
    ELSE IF startMs < 0 THEN {Fail(st, "startMs must be >= 0")}
    ELSE IF endMs0 <= startMs THEN {Fail(st, "endMs must be > startMs")}
    ELSE Return(
      Bind(ensureParentDir(Frame(st), outputPath), LAMBDA a :
      Bind(probeDurationMs(a, inputPath), LAMBDA b :
        LET inputDurationMs == b.ret
            endMs == IF endMs0 > inputDurationMs THEN inputDurationMs ELSE endMs0
        IN  IF startMs >= inputDurationMs
            THEN {Fail(b, "startMs must be < duration")}
            ELSE
      Bind(probeDurationMs(b, replacePath), LAMBDA c :
        LET replaceDurationMs == c.ret
        IN  \* Whole-file replace.
            IF startMs = 0 /\ endMs >= inputDurationMs
            THEN Bind(CopyFile(c, replacePath, outputPath), LAMBDA d :
                   {[d EXCEPT !.ret = replaceDurationMs]})
            ELSE ReplaceSection_splice(c, inputPath, replacePath, outputPath, startMs,
                                       endMs, inputDurationMs, replaceDurationMs)))),
      st.defers)

----------------------------------------------------------------------------
\* The state machine: a disk, and one call of the package on it.

\* The disks a call starts on: the input, the clip and a file whose name
\* holds a quote are media files; the output path holds an older file or none.
InitialDisks ==
    { [p \in AllPaths |->
         IF p = InPath THEN Original("in", n)
         ELSE IF p = ClipPath THEN Original("clip", m)
         ELSE IF p = QuotePath THEN Original("quote", 1)
         ELSE IF p = OutPath /\ old THEN Original("old", 1)
         ELSE NoFile]
      : n \in 2..MaxDur, m \in 1..2, old \in BOOLEAN }

ArgPaths == UserPaths \cup {BlankPath}

Times == (-1)..(MaxDur + 1)

NoCall == [op |-> "none", paths |-> <<>>, startMs |-> 0, endMs |-> 0,
           err |-> "", ret |-> 0, log |-> <<>>, cancelled |-> FALSE]

Init ==
    /\ fs \in InitialDisks
    /\ pre = fs
    /\ call = NoCall

\* The call returned in execution state r.
Returned(op, paths, startMs, endMs, r, hasValue) ==
    /\ fs' = r.fs
    /\ pre' = fs
    /\ call' = [op |-> op, paths |-> paths, startMs |-> startMs, endMs |-> endMs,
                err |-> r.err, ret |-> IF hasValue THEN r.ret ELSE 0,
                log |-> r.log, cancelled |-> r.cancelled]

CallGetDurationMs ==
    /\ call.op = "none"
    /\ \E p \in ArgPaths :
         \E r \in GetDurationMs(Start(fs), p) :
            Returned("GetDurationMs", <<p>>, 0, 0, r, TRUE)

CallDeleteFile ==
    /\ call.op \in {"none", "DeleteFile"}
    /\ \E p \in ArgPaths :
         \E r \in DeleteFile(Start(fs), p) :
            Returned("DeleteFile", <<p>>, 0, 0, r, FALSE)

CallCopyFile ==
    /\ call.op = "none"
    /\ \E i \in ArgPaths, o \in ArgPaths :
         \E r \in CopyFile(Start(fs), i, o) :
            Returned("CopyFile", <<i, o>>, 0, 0, r, FALSE)

CallCopySection ==
    /\ call.op = "none"
    /\ \E i \in ArgPaths, o \in ArgPaths, s \in Times, e \in Times :
         \E r \in CopySection(Start(fs), i, o, s, e) :
            Returned("CopySection", <<i, o>>, s, e, r, FALSE)

CallDeleteSection ==
    /\ call.op = "none"
    /\ \E i \in ArgPaths, o \in ArgPaths, s \in Times, e \in Times :
         \E r \in DeleteSection(Start(fs), i, o, s, e) :
            Returned("DeleteSection", <<i, o>>, s, e, r, FALSE)

CallAppendFile ==
    /\ call.op = "none"
    /\ \E i \in ArgPaths, a \in ArgPaths, o \in ArgPaths :
         \E r \in AppendFile(Start(fs), i, a, o) :
            Returned("AppendFile", <<i, a, o>>, 0, 0, r, TRUE)

CallAppendSection ==
    /\ call.op = "none"
    /\ \E i \in ArgPaths, a \in ArgPaths, o \in ArgPaths, s \in Times :
         \E r \in AppendSection(Start(fs), i, a, o, s) :
            Returned("AppendSection", <<i, a, o>>, s, s, r, TRUE)

CallReplaceSection ==
    /\ call.op = "none"
    /\ \E i \in ArgPaths, a \in ArgPaths, o \in ArgPaths, s \in Times, e \in Times :
         \E r \in ReplaceSection(Start(fs), i, a, o, s, e) :
            Returned("ReplaceSection", <<i, a, o>>, s, e, r, TRUE)

\* The lists of paths createConcatListFile is given, the empty one included.
PathLists == UNION { [1..n -> ArgPaths] : n \in 0..MaxList }

\* createConcatListFile called on its own: the manifest stays on disk, its
\* removal is the caller's to defer.
CallCreateConcatListFile ==
    /\ call.op = "none"
    /\ \E paths \in PathLists :
         \E r \in createConcatListFile(Start(fs), "", paths) :
            Returned("createConcatListFile", paths, 0, 0, r, FALSE)

Next ==
    \/ CallGetDurationMs
    \/ CallDeleteFile
    \/ CallCopyFile
    \/ CallCopySection
    \/ CallDeleteSection
    \/ CallAppendFile
    \/ CallAppendSection
    \/ CallReplaceSection
    \/ CallCreateConcatListFile

Spec == Init /\ [][Next]_vars

----------------------------------------------------------------------------
\* Vocabulary of the properties.

\* The destination path of the call.
Dest == call.paths[Len(call.paths)]

\* The path the call reads as its input.
Source == call.paths[1]

EditOps == {"CopyFile", "CopySection", "DeleteSection", "AppendFile",
            "AppendSection", "ReplaceSection"}

Composites == {"DeleteSection", "AppendFile", "AppendSection", "ReplaceSection"}

IsFFmpeg(e) == e.cmd = "ffmpeg"
IsMktemp(e) == e.cmd = "mktemp"

\* The ffmpeg invocations of the call, in the order issued.
Engine == SelectSeq(call.log, IsFFmpeg)

\* The scratch and manifest files the call created.
Created == { call.log[i].out : i \in { k \in DOMAIN call.log : IsMktemp(call.log[k]) } }

FsErrors == {"mkdir failed", "createtemp failed", "writefile failed", "rename failed"}

\* Two invocations are the two attempts of one step.
SameStep(a, b) ==
    /\ a.form = b.form /\ a.src = b.src /\ a.list = b.list
    /\ a.lo = b.lo /\ a.hi = b.hi /\ a.out = b.out

----------------------------------------------------------------------------
\* C1: if an ffmpeg invocation fails during a call of an edit operation and
\* the call returns an error, a destination file that existed before the
\* call has the content it had before the call.
C1_DestinationKeptOnEngineFailure ==
    ( /\ call.op \in EditOps
      /\ call.err # ""
      /\ \E i \in DOMAIN Engine : ~Engine[i].ok
      /\ Exists(pre, Dest) )
    => fs[Dest] = pre[Dest]

\* C2: when DeleteSection, AppendFile, AppendSection or ReplaceSection has
\* returned, on any exit path, no scratch file and no manifest file exists:
\* the disk holds none the call created, and none at all.
C2_NoScratchLeft ==
    call.op \in Composites =>
        /\ \A p \in Created : ~Exists(fs, p)
        /\ \A p \in TempPaths : ~Exists(fs, p)

\* C2 witness: an in-place insert that had created its staging file, both
\* parts and the manifest when the join was cancelled.
C2_Witness ==
    /\ call.op = "AppendSection"
    /\ call.cancelled
    /\ call.err # ""
    /\ Cardinality(Created) = 4
    /\ \E i \in DOMAIN Engine : Engine[i].form = "concat"

\* C3: in every concat invocation of DeleteSection, AppendFile, AppendSection
\* and ReplaceSection the output path is not an entry of the manifest read.
C3_ConcatOutputNotInManifest ==
    call.op \in Composites =>
        \A i \in DOMAIN Engine :
            Engine[i].form = "concat" => Engine[i].out \notin Range(Engine[i].src)

\* C4: range extraction and concatenation are two-tier: a re-encode attempt
\* directly follows a failed stream-copy attempt of the same step and is
\* issued after nothing else; a failed stream-copy attempt is always followed
\* by the re-encode attempt; a step whose re-encode attempt failed ends the
\* call with an error and nothing is issued after it; a call that succeeded
\* had an attempt succeed in every step; CopySection succeeds exactly when
\* its last attempt did.
C4_TwoTier ==
    /\ \A i \in DOMAIN Engine :
         LET e == Engine[i]
         IN  /\ e.form = "remux" => e.mode = "copy"
             /\ (e.form # "remux" /\ e.mode = "reencode") =>
                    /\ i > 1
                    /\ Engine[i - 1].mode = "copy"
                    /\ ~Engine[i - 1].ok
                    /\ SameStep(Engine[i - 1], e)
             /\ (e.form # "remux" /\ e.mode = "copy" /\ ~e.ok) =>
                    /\ i < Len(Engine)
                    /\ Engine[i + 1].mode = "reencode"
                    /\ SameStep(e, Engine[i + 1])
             /\ (e.mode = "copy" /\ e.ok /\ i < Len(Engine)) =>
                    Engine[i + 1].mode = "copy"
             /\ (e.form # "remux" /\ e.mode = "reencode" /\ ~e.ok) =>
                    i = Len(Engine) /\ call.err # ""
             /\ (e.form # "remux" /\ e.mode = "reencode" /\ e.ok /\ i < Len(Engine)) =>
                    ~SameStep(e, Engine[i + 1])
    /\ (call.op = "CopySection" /\ Engine # <<>>) =>
           /\ Len(Engine) <= 2
           /\ call.err = "" <=> Engine[Len(Engine)].ok

\* C4 witness: a call that succeeded with a stream-copy attempt that failed,
\* its re-encode attempt that succeeded, and a later step.
C4_Witness ==
    /\ call.err = ""
    /\ \E i \in DOMAIN Engine :
         /\ i + 2 <= Len(Engine)
         /\ Engine[i].form = "section" /\ ~Engine[i].ok
         /\ Engine[i + 1].mode = "reencode" /\ Engine[i + 1].ok
         /\ Engine[Len(Engine)].form = "concat" /\ Engine[Len(Engine)].mode = "reencode"

----------------------------------------------------------------------------
\* The cuts of the call that succeeded, in the order made, and what each
\* one wrote.

IsOkSection(e) == e.cmd = "ffmpeg" /\ e.form = "section" /\ e.ok

OkSections == SelectSeq(call.log, IsOkSection)

Piece(x) == Cut(pre[x.src[1]].d, x.lo, x.lo + x.wrote)

\* Every cut of the call wrote the range it was asked for.
ExactEngine == \A i \in DOMAIN OkSections : OkSections[i].wrote = OkSections[i].hi - OkSections[i].lo

Min(a, b) == IF a < b THEN a ELSE b

\* The second path argument: the clip appended, inserted or put in place.
Clip == call.paths[2]

\* C5: a DeleteSection that succeeded on a range that is not the whole file
\* cut [0,start) when start > 0 and [e,D) when e < D, in that order and
\* nothing else, and the destination holds what the cuts wrote in that
\* order; with exact cuts that is the input without [start,e), of duration
\* D - (e - start).
C5_DeleteKeepsTheRest ==
    LET D == Dur(pre, Source)
        s == call.startMs
        e == Min(call.endMs, D)
        d == pre[Source].d
    IN  ( /\ call.op = "DeleteSection"
          /\ call.err = ""
          /\ ~(s = 0 /\ e = D) )
        => /\ s < D
           /\ [i \in DOMAIN OkSections |-> <<OkSections[i].lo, OkSections[i].hi>>]
                = (IF s > 0 THEN <<(<<0, s>>)>> ELSE <<>>)
                    \o (IF e < D THEN <<(<<e, D>>)>> ELSE <<>>)
           /\ fs[Dest] = MediaFile(Flatten([i \in DOMAIN OkSections |-> Piece(OkSections[i])]))
           /\ ExactEngine =>
                /\ fs[Dest].d = Cut(d, 0, s) \o Cut(d, e, D)
                /\ Dur(fs, Dest) = D - (e - s)

\* C5 witness: an in-place delete of the middle of the input, with exact
\* cuts, that left the two ends joined.
C5_Witness ==
    /\ call.op = "DeleteSection"
    /\ call.err = ""
    /\ Dest = Source
    /\ call.startMs > 0
    /\ call.endMs < Dur(pre, Source)
    /\ ExactEngine
    /\ Dur(fs, Dest) = Dur(pre, Source) - (call.endMs - call.startMs)
    /\ \E i \in DOMAIN Engine : Engine[i].form = "concat" /\ Engine[i].ok

C7_ReplaceSplices ==
    LET D == Dur(pre, Source)
        s == call.startMs
        e == Min(call.endMs, D)
        d == pre[Source].d
    IN  ( /\ call.op = "ReplaceSection"
          /\ IsMedia(pre, Source) /\ IsMedia(pre, Clip) /\ ~IsUnsafe(Clip)
          /\ ~IsBlank(Dest) /\ Dest # Clip
          /\ 0 <= s /\ s < call.endMs /\ s < D
          /\ ~(s = 0 /\ e = D)
          /\ \A i \in DOMAIN call.log : call.log[i].ok
          /\ call.err \notin FsErrors )
        => /\ call.err = ""
           /\ ExactEngine => fs[Dest].d = Cut(d, 0, s) \o pre[Clip].d \o Cut(d, e, D)
           /\ call.ret = (IF s = 0 THEN 0 ELSE OkSections[1].wrote) + Dur(pre, Clip)

\* C8: ReplaceSection with start = 0 and end >= duration, once both
\* durations are probed, is CopyFile(replacement, output): no file is
\* created, the only ffmpeg invocation is the stream-copy remux of the
\* replacement into the output, the disk and the error are those CopyFile
\* gives, and on success the output holds the replacement and the value
\* returned is the replacement's duration as it was before the copy.
C8_ReplaceAllIsCopyFile ==
    ( /\ call.op = "ReplaceSection"
      /\ Len(call.log) >= 2
      /\ call.log[1].cmd = "ffprobe" /\ call.log[1].ok
      /\ call.log[2].cmd = "ffprobe" /\ call.log[2].ok
      /\ call.startMs = 0
      /\ call.endMs >= Dur(pre, Source) )
    => /\ Created = {}
       /\ Len(call.log) = 2 + Len(Engine)
       /\ Len(Engine) <= 1
       /\ \A i \in DOMAIN Engine :
            /\ Engine[i].form = "remux" /\ Engine[i].mode = "copy"
            /\ Engine[i].src = <<Clip>> /\ Engine[i].out = Dest
       /\ \E r \in CopyFile(Start(pre), Clip, Dest) :
            /\ r.fs = fs
            /\ r.err = call.err
            /\ r.log = SubSeq(call.log, 3, Len(call.log))
       /\ call.err = "" =>
            /\ call.ret = Dur(pre, Clip)
            /\ fs[Dest] = pre[Clip]
            /\ Len(Engine) = 1

\* C8 witness: an in-place whole-file replace, its end past the duration,
\* that put the clip in place of the input.
C8_Witness ==
    /\ call.op = "ReplaceSection"
    /\ call.err = ""
    /\ call.startMs = 0
    /\ call.endMs > Dur(pre, Source)
    /\ Dest = Source
    /\ Clip # Dest
    /\ Len(Engine) = 1 /\ Engine[1].form = "remux"
    /\ fs[Dest] = pre[Clip]
    /\ call.ret = Dur(pre, Clip)

\* C9: an AppendSection at 0 that succeeded left the clip followed by the
\* whole input in the destination, for output # input and output = input
\* alike, and returned the clip's duration.
C9_PrependAtZero ==
    ( /\ call.op = "AppendSection"
      /\ call.startMs = 0
      /\ call.err = "" )
    => /\ fs[Dest] = MediaFile(pre[Clip].d \o pre[Source].d)
       /\ call.ret = Dur(pre, Clip)

\* C10: an AppendSection at duration(input) that succeeded left the whole
\* input followed by the clip in the destination and returned the duration
\* of that result, duration(input) + duration(clip).
C10_AppendAtEnd ==
    ( /\ call.op = "AppendSection"
      /\ IsMedia(pre, Source)
      /\ call.startMs = Dur(pre, Source)
      /\ call.err = "" )
    => /\ fs[Dest] = MediaFile(pre[Source].d \o pre[Clip].d)
       /\ call.ret = Dur(fs, Dest)
       /\ call.ret = Dur(pre, Source) + Dur(pre, Clip)

----------------------------------------------------------------------------
\* C11: an AppendFile that succeeded left the input followed by the
\* appended file in the destination; its last step is the probe of the
\* destination path and the value returned is the duration found there; with
\* output = input every ffmpeg invocation wrote the staging file, which was
\* then renamed over the destination.
C11_AppendFileJoins ==
    ( /\ call.op = "AppendFile"
      /\ call.err = "" )
    => /\ fs[Dest] = MediaFile(pre[Source].d \o pre[Clip].d)
       /\ call.ret = Dur(fs, Dest)
       /\ call.log[Len(call.log)].cmd = "ffprobe"
       /\ call.log[Len(call.log)].src = <<Dest>>
       /\ Dest = Source =>
            /\ \A i \in DOMAIN Engine : Engine[i].out = TempName("mvedit-append")
            /\ \E i \in DOMAIN call.log :
                 /\ call.log[i].cmd = "rename" /\ call.log[i].ok
                 /\ call.log[i].src = <<TempName("mvedit-append")>>
                 /\ call.log[i].out = Dest

RangeErrors == {"startMs must be < duration", "insertMs must be >= 0",
                "insertMs must be <= duration"}

\* The call probed its input and the probe succeeded.
ProbedInput ==
    /\ Len(call.log) >= 1
    /\ call.log[1].cmd = "ffprobe" /\ call.log[1].src = <<Source>> /\ call.log[1].ok

\* C13: DeleteSection and ReplaceSection reject start >= duration,
\* AppendSection rejects insertMs < 0 and insertMs > duration; a call rejected
\* so ran no ffmpeg, created no file and left the disk as it was.  An end past
\* the duration is clamped: the call does what the call with end = duration
\* does.
C13_RangeRejected ==
    /\ call.err \in RangeErrors =>
         /\ Engine = <<>>
         /\ Created = {}
         /\ fs = pre
    /\ ( /\ call.op \in {"DeleteSection", "ReplaceSection"}
         /\ ProbedInput
         /\ call.startMs >= Dur(pre, Source) )
       => call.err = "startMs must be < duration"
    /\ ( /\ call.op = "AppendSection"
         /\ \A i \in DOMAIN call.paths : ~IsBlank(call.paths[i])
         /\ call.startMs < 0 )
       => call.err = "insertMs must be >= 0"
    /\ ( /\ call.op = "AppendSection"
         /\ ProbedInput
         /\ call.startMs > Dur(pre, Source) )
       => call.err = "insertMs must be <= duration"
    /\ ( /\ call.op = "DeleteSection"
         /\ ProbedInput
         /\ call.startMs < Dur(pre, Source)
         /\ call.endMs > Dur(pre, Source) )
       => /\ call.err # "startMs must be < duration"
          /\ \E r \in DeleteSection(Start(pre), Source, Dest, call.startMs,
                                    Dur(pre, Source)) :
               r.fs = fs /\ r.err = call.err /\ r.log = call.log
    /\ ( /\ call.op = "ReplaceSection"
         /\ ProbedInput
         /\ call.startMs < Dur(pre, Source)
         /\ call.endMs > Dur(pre, Source) )
       => /\ call.err # "startMs must be < duration"
          /\ \E r \in ReplaceSection(Start(pre), Source, Clip, Dest, call.startMs,
                                     Dur(pre, Source)) :
               r.fs = fs /\ r.err = call.err /\ r.log = call.log /\ r.ret = call.ret

\* C13 witness: an in-place DeleteSection whose start is the duration of the
\* input and whose end is past it, rejected.
C13_Witness ==
    /\ call.op = "DeleteSection"
    /\ Dest = Source
    /\ IsMedia(pre, Source)
    /\ call.startMs = Dur(pre, Source)
    /\ call.endMs > Dur(pre, Source)
    /\ call.err = "startMs must be < duration"
    /\ fs = pre

----------------------------------------------------------------------------
\* The errors of argument validation: a blank path, a malformed range, a
\* path the manifest cannot hold.
ValidationErrors ==
    {"filePath is empty", "inputPath is empty", "outputPath is empty",
     "appendPath is empty", "replacePath is empty", "startMs must be >= 0",
     "endMs must be > startMs", "insertMs must be >= 0", "no concat paths",
     "concat path is empty", "concat paths contain unsupported characters"}

IsExternal(e) == e.cmd \in {"ffprobe", "ffmpeg"}

\* The ffprobe and ffmpeg invocations of the call.
External == SelectSeq(call.log, IsExternal)

\* C14: a call that returns a validation error has run no ffprobe and no
\* ffmpeg.
C14_ValidationFirst ==
    call.err \in ValidationErrors => External = <<>>

\* C15: when the context was cancelled during an ffmpeg invocation of
\* DeleteSection, AppendFile, AppendSection or ReplaceSection, the call
\* returns an error, nothing succeeds from a failed ffmpeg invocation on,
\* nothing was renamed over the destination, the destination is as it was
\* and no scratch or manifest file is left.
C15_CancelAborts ==
    ( /\ call.op \in Composites
      /\ call.cancelled )
    => /\ call.err # ""
       /\ \E k \in DOMAIN call.log :
            /\ call.log[k].cmd = "ffmpeg" /\ ~call.log[k].ok
            /\ \A j \in DOMAIN call.log : j > k => ~call.log[j].ok
       /\ \A i \in DOMAIN call.log :
            ~(call.log[i].cmd = "rename" /\ call.log[i].ok)
       /\ fs[Dest] = pre[Dest]
       /\ \A p \in TempPaths : ~Exists(fs, p)

\* The cuts into partA that succeeded.
IsPartACut(e) == IsOkSection(e) /\ e.out = TempName("mvedit-partA")

PartACuts == SelectSeq(call.log, IsPartACut)

\* C16: an AppendSection with 0 < insertMs < duration, or a ReplaceSection
\* of a proper part, that succeeded cut partA once and returned the duration
\* of the partA it cut plus the duration of the inserted file, whatever the
\* cut wrote.
C16_BoundaryFromProbe ==
    ( /\ call.op \in {"AppendSection", "ReplaceSection"}
      /\ call.err = ""
      /\ \/ call.op = "AppendSection"
            /\ 0 < call.startMs /\ call.startMs < Dur(pre, Source)
         \/ call.op = "ReplaceSection"
            /\ ~(call.startMs = 0 /\ call.endMs >= Dur(pre, Source)) )
    => /\ Len(PartACuts) = 1
       /\ call.ret = PartACuts[1].wrote + Dur(pre, Clip)

\* C16 witness: an insert whose partA came out one tick longer than asked
\* for; the value returned follows the file, not the request.
C16_Witness ==
    /\ call.op = "AppendSection"
    /\ call.err = ""
    /\ Len(PartACuts) = 1
    /\ PartACuts[1].wrote = call.startMs + 1
    /\ call.ret = call.startMs + 1 + Dur(pre, Clip)

\* The renames over the destination that succeeded.
DestRenames ==
    { i \in DOMAIN call.log :
        call.log[i].cmd = "rename" /\ call.log[i].ok /\ call.log[i].out = Dest }

\* Every step before position i of the log succeeded: an entry that failed
\* is a stream copy whose re-encode, the next entry, succeeded.
StepsOkBefore(i) ==
    \A j \in 1..(i - 1) :
        \/ call.log[j].ok
        \/ /\ call.log[j].cmd = "ffmpeg" /\ call.log[j].mode = "copy"
           /\ call.log[j + 1].cmd = "ffmpeg" /\ call.log[j + 1].mode = "reencode"
           /\ call.log[j + 1].ok

\* C17: in a call with output = input every ffmpeg invocation writes a
\* scratch path, never the destination; at most one rename over the
\* destination succeeds and every step before it succeeded.  In a call of
\* AppendFile, AppendSection or ReplaceSection with output # input nothing
\* is renamed and no staging file is created.
C17_StageThenRename ==
    /\ ( /\ call.op \in Composites
         /\ Dest = Source )
       => /\ \A i \in DOMAIN Engine :
               Engine[i].out # Dest /\ Engine[i].out \in TempPaths
          /\ Cardinality(DestRenames) <= 1
          /\ \A i \in DestRenames : StepsOkBefore(i)
    /\ ( /\ call.op \in {"AppendFile", "AppendSection", "ReplaceSection"}
         /\ Dest # Source )
       => /\ \A i \in DOMAIN call.log : call.log[i].cmd # "rename"
          /\ Created \cap { TempName(x) : x \in {"mvedit-append", "mvedit-insert",
                                                 "mvedit-replace"} } = {}

----------------------------------------------------------------------------
\* The manifest an orchestrator builds for its concatenation.
ExpectedManifest ==
    LET partA == TempName("mvedit-partA")
        partB == TempName("mvedit-partB")
    IN  IF call.op = "DeleteSection" THEN <<partA, partB>>
        ELSE IF call.op = "AppendFile" THEN <<Source, Clip>>
        ELSE IF call.op = "ReplaceSection" THEN <<partA, Clip, partB>>
        \* AppendSection at 0 and at the end is AppendFile
        ELSE IF call.startMs = 0 THEN <<Clip, Source>>
        ELSE IF call.startMs = Dur(pre, Source) THEN <<Source, Clip>>
        ELSE <<partA, Clip, partB>>

\* C18: createConcatListFile, given a non-empty list with no blank and no
\* unsafe path, writes a manifest with one entry per path in the order
\* given, duplicates kept, unless the file system fails; given an empty
\* list or a blank or unsafe path it returns an error and creates no file.
\* The manifest every concat of an orchestrator reads is <<partA, partB>>
\* for DeleteSection, <<input, toAppend>> for AppendFile, <<partA, toAppend,
\* partB>> for AppendSection and <<partA, replacement, partB>> for
\* ReplaceSection.
C18_ManifestInOrder ==
    /\ call.op = "createConcatListFile" =>
         LET listPath == TempName("mvedit-concat")
             valid == /\ call.paths # <<>>
                      /\ \A i \in DOMAIN call.paths :
                           ~IsBlank(call.paths[i]) /\ ~IsUnsafe(call.paths[i])
         IN  /\ \A p \in AllPaths \ {listPath} : fs[p] = pre[p]
             /\ ~valid => call.err \in ValidationErrors /\ Created = {} /\ fs = pre
             /\ valid /\ call.err # "" => call.err \in FsErrors /\ fs = pre
             /\ valid /\ call.err = "" =>
                  /\ Created = {listPath}
                  /\ fs[listPath].t = "list"
                  /\ ManifestEntries(fs, listPath) = call.paths
    /\ call.op \in Composites =>
         \A i \in DOMAIN Engine :
            Engine[i].form = "concat" => Engine[i].src = ExpectedManifest

\* C18 witness: a manifest of three entries whose first and last are the
\* same path, written in that order.
C18_Witness ==
    /\ call.op = "createConcatListFile"
    /\ call.err = ""
    /\ Len(call.paths) = 3
    /\ call.paths[1] = call.paths[3]
    /\ call.paths[1] # call.paths[2]
    /\ ManifestEntries(fs, TempName("mvedit-concat")) = call.paths

\* C19: every ffmpeg invocation of CopySection, stream copy or re-encode,
\* carries -avoid_negative_ts make_zero.
C19_SectionNormalizesTimestamps ==
    \A i \in DOMAIN Engine : Engine[i].form = "section" => Engine[i].negts

\* C20: an AppendFile with output = input that returns an error has left
\* the destination with the content of the input and has renamed nothing
\* over it.
C20_AppendFileErrorAtomic ==
    ( /\ call.op = "AppendFile"
      /\ ~IsBlank(Dest)
      /\ Dest = Source
      /\ call.err # "" )
    => /\ fs[Dest] = pre[Dest]
       /\ DestRenames = {}

----------------------------------------------------------------------------
\* The ffmpeg invocations of CopySection in the call.
IsSection(e) == e.cmd = "ffmpeg" /\ e.form = "section"

Sections == SelectSeq(call.log, IsSection)

\* C21: DeleteSection never returns "nothing to keep after delete"; every
\* cut it issues has a non-empty range, and the error of an empty range
\* comes from its own validation only, before anything ran; a call past the
\* whole-range check that succeeded cut partA or partB.
C21_SomethingIsKept ==
    call.op = "DeleteSection" =>
        /\ call.err # "nothing to keep after delete"
        /\ \A i \in DOMAIN Sections : Sections[i].lo < Sections[i].hi
        /\ call.err = "endMs must be > startMs" =>
             call.endMs <= call.startMs /\ call.log = <<>>
        /\ ( /\ call.err = ""
             /\ ~(call.startMs = 0 /\ call.endMs >= Dur(pre, Source)) )
           => /\ OkSections # <<>>
              /\ \A i \in DOMAIN OkSections :
                   OkSections[i].out \in {TempName("mvedit-partA"),
                                          TempName("mvedit-partB")}

\* C21 witness: a DeleteSection from inside the input to past its end,
\* which kept partA alone.
C21_Witness ==
    /\ call.op = "DeleteSection"
    /\ call.err = ""
    /\ call.startMs > 0
    /\ call.endMs > Dur(pre, Source)
    /\ Len(OkSections) = 1
    /\ OkSections[1].out = TempName("mvedit-partA")
    /\ OkSections[1].lo = 0
    /\ OkSections[1].hi = call.startMs

====
